---- MODULE Spec2Model ----
(***************************************************************************)
(* Model of the multi-locale template repository of elmordo/terrarium:     *)
(* TerariumBuilder (add_template, add_group, check_group_config_validity,  *)
(* build) and Terarium (render_template, render_group) of src/terarium.rs. *)
(*                                                                         *)
(* A std HashMap is modelled as a TLA+ function from the set of its keys.  *)
(* Its iteration order is arbitrary: where the code iterates a map, the    *)
(* model takes the order as a sequence enumerating the keys.  A group      *)
(* (HashMap<member key, template key>) is iterated by several calls on the *)
(* same unmodified map, so a group carries its iteration order with it.    *)
(***************************************************************************)
EXTENDS Integers, Sequences, FiniteSets, TLC

VARIABLES
    phase,          \* "Staging" | "Built" | "Failed": what became of the builder
    templates,      \* TerariumBuilder.templates (as moved into build, once built)
    groups,         \* TerariumBuilder.groups    (as moved into build, once built)
    tera,           \* Terarium.tera: handle name -> compiled body
    template_map,   \* Terarium.template_map: template key -> locale -> handle name
    rgroups,        \* Terarium.groups
    calls,          \* number of add_template / add_group calls made so far
    last            \* the most recent call: operation, arguments, returned value

vars == <<phase, templates, groups, tera, template_map, rgroups, calls, last>>

----------------------------------------------------------------------------
(* Input universes and bounds                                              *)

\* Option::None
None == "None"

\* cap on the number of add_template / add_group calls of one builder
MaxAdds == 3

TemplateKeys == {"t1", "t2"}
GroupKeys    == {"g1", "g2"}
MemberKeys   == {"A", "B"}
\* locales that content variants are tagged with, and locales asked for
TagLocales   == {"en", "cs"}
Locales      == TagLocales \cup {"de"}

\* Raw template bodies: a constant text, a text with one variable, and a body
\* the Tera parser rejects.
BodyA   == "a"
BodyB   == "b {{name}}"
BodyBad == "{{"

\* tera::Context values: the empty context and one that defines "name".
EmptyMap == <<>>
Contexts == {EmptyMap, [name |-> "john"]}

\* crate::Content { name: Option<String>, content: String, languages: Vec<String> }
Content(name, content, languages) ==
    [name |-> name, content |-> content, languages |-> languages]

\* the fixture's variants: a constant body tagged en, a body with a variable
\* tagged cs, a variant with a caller-assigned name serving both locales, and a
\* variant whose body does not parse
ContentEn    == Content(None, BodyA, {"en"})
ContentCs    == Content(None, BodyB, {"cs"})
ContentNamed == Content("template#1", BodyB, {"en", "cs"})
ContentBad   == Content(None, BodyBad, {"en"})

Contents == {ContentEn, ContentCs, ContentNamed, ContentBad}

\* crate::Template: the ordered list of its content variants (here none, one,
\* or two different ones in either order)
Templates ==
    {<<>>} \cup {<<c>> : c \in Contents}
           \cup {<<p[1], p[2]>> : p \in {q \in Contents \X Contents : q[1] # q[2]}}

\* the templates of the rendering scenarios: no variant, one locale, two locales,
\* a caller-named variant, and two variants tagging the same locale
RenderTemplates ==
    { <<>>, <<ContentEn>>, <<ContentCs>>, <<ContentCs, ContentEn>>, <<ContentNamed>>,
      <<ContentEn, ContentNamed>> }

\* all enumerations of a finite set: the orders a HashMap may iterate in
Perms(S) ==
    {s \in [1..Cardinality(S) -> S] : \A i, j \in 1..Cardinality(S) : s[i] = s[j] => i = j}

\* HashMap<String, String> member key -> template key, with its iteration order
Group(map, order) == [map |-> map, order |-> order]

GroupInputs ==
    UNION { UNION { {Group(m, o) : o \in Perms(D)} : m \in [D -> TemplateKeys] }
            : D \in SUBSET MemberKeys }

----------------------------------------------------------------------------
(* HashMap operations                                                      *)

\* HashMap::insert: store or replace the value under key
Insert(map, key, value) ==
    [k \in DOMAIN map \cup {key} |-> IF k = key THEN value ELSE map[k]]

\* HashMap::contains_key
ContainsKey(map, key) == key \in DOMAIN map

(* Result<T, E>                                                            *)
Ok(value)  == [ok |-> TRUE, val |-> value]
Err(error) == [ok |-> FALSE, err |-> error]

----------------------------------------------------------------------------
(* The Tera engine, as far as the repository uses it                       *)

\* Tera::add_raw_template(name, content): parse content and register it under
\* name, replacing whatever was registered under that name before
TeraAddRawTemplate(engine, name, content) ==
    IF content = BodyBad THEN Err("TeraError") ELSE Ok(Insert(engine, name, content))

\* Tera::render(name, context): expand the body registered under name
TeraRender(engine, name, context) ==
    IF ~ContainsKey(engine, name) THEN Err("TeraError")
    ELSE IF engine[name] = BodyA THEN Ok("a")
    ELSE IF ContainsKey(context, "name") THEN Ok("b " \o context["name"])
    ELSE Err("TeraError")

----------------------------------------------------------------------------
(* TerariumBuilder                                                         *)

\* add_template that keeps the template already stored under the key
add_template_KeepFirst(self_templates, key, template) ==
    IF ContainsKey(self_templates, key) THEN self_templates
    ELSE Insert(self_templates, key, template)

\* TerariumBuilder::add_template: self.templates.insert(key, template)
add_template(self_templates, key, template) == Insert(self_templates, key, template)

\* TerariumBuilder::add_group: self.groups.insert(key, group)
add_group(self_groups, key, group) == Insert(self_groups, key, group)

RECURSIVE Flatten(_)
\* Iterator::flatten over a sequence of sequences
Flatten(seqs) == IF seqs = <<>> THEN <<>> ELSE Head(seqs) \o Flatten(Tail(seqs))

\* the inner iterator of check_group_config_validity: the members of one group
\* whose template is missing, in the group's iteration order
MissingMembers(self_templates, group_key, members) ==
    LET missing == SelectSeq(members.order,
                             LAMBDA m : ~ContainsKey(self_templates, members.map[m]))
    IN  [i \in 1..Len(missing) |-> <<group_key, missing[i], members.map[missing[i]]>>]

\* check_group_config_validity that stops at the first group with a violation
check_group_config_validity_FirstGroup(self_templates, self_groups, group_order) ==
    LET found == SelectSeq([i \in 1..Len(group_order) |->
                              MissingMembers(self_templates, group_order[i],
                                             self_groups[group_order[i]])],
                           LAMBDA v : v # <<>>)
    IN  IF found = <<>> THEN <<>> ELSE Head(found)

\* TerariumBuilder::check_group_config_validity, self.groups iterated in group_order
check_group_config_validity(self_templates, self_groups, group_order) ==
    Flatten([i \in 1..Len(group_order) |->
                MissingMembers(self_templates, group_order[i], self_groups[group_order[i]])])

\* format!("template#{}", tera_template_id)
TemplateName(tera_template_id) == "template#" \o ToString(tera_template_id)

\* the `content.languages.into_iter().for_each` of build: every language of the
\* variant is mapped to the variant's handle name, under the template's entry
InsertLanguages(map, template_key, languages, template_name) ==
    IF languages = {} THEN map
    ELSE LET entry == IF ContainsKey(map, template_key) THEN map[template_key] ELSE EmptyMap
         IN  Insert(map, template_key,
                    [l \in DOMAIN entry \cup languages |->
                        IF l \in languages THEN template_name ELSE entry[l]])

\* the inner closure of build, advancing the counter for unnamed variants only
BuildContent_CounterUnnamedOnly(st, template_key, content) ==
    LET template_name == IF content.name = None THEN TemplateName(st.tera_template_id)
                         ELSE content.name
        next_id == IF content.name = None THEN st.tera_template_id + 1
                   ELSE st.tera_template_id
        added == TeraAddRawTemplate(st.tera, template_name, content.content)
    IN  IF ~added.ok
        THEN [st EXCEPT !.tera_template_id = next_id, !.failed = TRUE]
        ELSE [tera |-> added.val,
              template_map |-> InsertLanguages(st.template_map, template_key,
                                               content.languages, template_name),
              tera_template_id |-> next_id,
              failed |-> FALSE]

\* the inner closure of build, going on when a variant does not compile
BuildContent_IgnoreError(st, template_key, content) ==
    LET template_name == IF content.name = None THEN TemplateName(st.tera_template_id)
                         ELSE content.name
        added == TeraAddRawTemplate(st.tera, template_name, content.content)
    IN  IF ~added.ok
        THEN [st EXCEPT !.tera_template_id = @ + 1]
        ELSE [tera |-> added.val,
              template_map |-> InsertLanguages(st.template_map, template_key,
                                               content.languages, template_name),
              tera_template_id |-> st.tera_template_id + 1,
              failed |-> FALSE]

\* one pass of the inner closure of build over one content variant; st is the
\* instance under construction, the counter and whether `?` has returned
BuildContent(st, template_key, content) ==
    LET template_name == IF content.name = None THEN TemplateName(st.tera_template_id)
                         ELSE content.name
        added == TeraAddRawTemplate(st.tera, template_name, content.content)
    IN  IF ~added.ok
        THEN [st EXCEPT !.tera_template_id = @ + 1, !.failed = TRUE]
        ELSE [tera |-> added.val,
              template_map |-> InsertLanguages(st.template_map, template_key,
                                               content.languages, template_name),
              tera_template_id |-> st.tera_template_id + 1,
              failed |-> FALSE]

RECURSIVE BuildContents(_, _)
\* the two nested try_for_each of build over the <<template key, content>> pairs
BuildContents(st, work) ==
    IF work = <<>> \/ st.failed THEN st
    ELSE BuildContents(BuildContent(st, Head(work)[1], Head(work)[2]), Tail(work))

\* self.templates.into_iter() in template_order, each with collect_contents()
ContentsInOrder(self_templates, template_order) ==
    Flatten([i \in 1..Len(template_order) |->
                [j \in 1..Len(self_templates[template_order[i]]) |->
                    <<template_order[i], self_templates[template_order[i]][j]>>]])

\* build that compiles the templates before it looks at the groups
build_CompileFirst(self_templates, self_groups, group_order, template_order) ==
    LET check_result == check_group_config_validity(self_templates, self_groups, group_order)
        st == BuildContents([tera |-> EmptyMap, template_map |-> EmptyMap,
                             tera_template_id |-> 1, failed |-> FALSE],
                            ContentsInOrder(self_templates, template_order))
    IN  IF st.failed THEN Err("TemplateBuildingError")
        ELSE IF check_result # <<>>
        THEN [ok |-> FALSE, err |-> "GroupIntegrityProblem", violations |-> check_result]
        ELSE Ok([tera |-> st.tera, template_map |-> st.template_map, groups |-> self_groups])

\* build that leaves the groups of the instance empty
build_NoGroups(self_templates, self_groups, group_order, template_order) ==
    LET check_result == check_group_config_validity(self_templates, self_groups, group_order)
        st == BuildContents([tera |-> EmptyMap, template_map |-> EmptyMap,
                             tera_template_id |-> 1, failed |-> FALSE],
                            ContentsInOrder(self_templates, template_order))
    IN  IF check_result # <<>>
        THEN [ok |-> FALSE, err |-> "GroupIntegrityProblem", violations |-> check_result]
        ELSE IF st.failed THEN Err("TemplateBuildingError")
        ELSE Ok([tera |-> st.tera, template_map |-> st.template_map, groups |-> EmptyMap])

\* TerariumBuilder::build, with the iteration orders of self.groups and self.templates
build(self_templates, self_groups, group_order, template_order) ==
    LET check_result == check_group_config_validity(self_templates, self_groups, group_order)
        st == BuildContents([tera |-> EmptyMap, template_map |-> EmptyMap,
                             tera_template_id |-> 1, failed |-> FALSE],
                            ContentsInOrder(self_templates, template_order))
    IN  IF check_result # <<>>
        THEN [ok |-> FALSE, err |-> "GroupIntegrityProblem", violations |-> check_result]
        ELSE IF st.failed THEN Err("TemplateBuildingError")
        ELSE Ok([tera |-> st.tera, template_map |-> st.template_map, groups |-> self_groups])

----------------------------------------------------------------------------
(* Terarium                                                                *)

\* render_template that treats a missing template as one without variants
render_template_NoTemplateCheck(self, context, template_key, language, fallback_language) ==
    LET template == IF ContainsKey(self.template_map, template_key)
                    THEN self.template_map[template_key] ELSE EmptyMap
    IN  IF ContainsKey(template, language)
        THEN LET r == TeraRender(self.tera, template[language], context)
             IN  IF r.ok THEN r ELSE Err("RenderingFailed")
        ELSE IF fallback_language # None /\ ContainsKey(template, fallback_language)
        THEN LET r == TeraRender(self.tera, template[fallback_language], context)
             IN  IF r.ok THEN r ELSE Err("RenderingFailed")
        ELSE Err("LanguageNotFound")

\* render_template that never consults the fallback language
render_template_NoFallback(self, context, template_key, language, fallback_language) ==
    IF ~ContainsKey(self.template_map, template_key) THEN Err("TemplateNotFound")
    ELSE LET template == self.template_map[template_key]
         IN  IF ContainsKey(template, language)
             THEN LET r == TeraRender(self.tera, template[language], context)
                  IN  IF r.ok THEN r ELSE Err("RenderingFailed")
             ELSE Err("LanguageNotFound")

\* render_template that looks the fallback language up before the requested one
render_template_FallbackFirst(self, context, template_key, language, fallback_language) ==
    IF ~ContainsKey(self.template_map, template_key) THEN Err("TemplateNotFound")
    ELSE LET template == self.template_map[template_key]
         IN  IF fallback_language # None /\ ContainsKey(template, fallback_language)
             THEN LET r == TeraRender(self.tera, template[fallback_language], context)
                  IN  IF r.ok THEN r ELSE Err("RenderingFailed")
             ELSE IF ContainsKey(template, language)
             THEN LET r == TeraRender(self.tera, template[language], context)
                  IN  IF r.ok THEN r ELSE Err("RenderingFailed")
             ELSE Err("LanguageNotFound")

\* Terarium::render_template
render_template(self, context, template_key, language, fallback_language) ==
    IF ~ContainsKey(self.template_map, template_key) THEN Err("TemplateNotFound")
    ELSE LET template == self.template_map[template_key]
         IN  IF ContainsKey(template, language)
             THEN LET r == TeraRender(self.tera, template[language], context)
                  IN  IF r.ok THEN r ELSE Err("RenderingFailed")
             ELSE IF fallback_language # None /\ ContainsKey(template, fallback_language)
             THEN LET r == TeraRender(self.tera, template[fallback_language], context)
                  IN  IF r.ok THEN r ELSE Err("RenderingFailed")
             ELSE Err("LanguageNotFound")

\* group.iter() that may visit the members in a new order on every call
GroupIter_AnyOrder(group) == Perms(DOMAIN group.map)

\* group.iter(): the order in which the members of an unmodified group are visited
GroupIter(group) == {group.order}

RECURSIVE RenderMembers(_, _, _, _, _, _, _)
\* the for loop of render_group, leaving out the members that fail to render
RenderMembers_SkipFailed(self, context, group, language, fallback_language, todo, result) ==
    IF todo = <<>> THEN Ok(result)
    ELSE LET content == render_template(self, context, group.map[Head(todo)],
                                        language, fallback_language)
         IN  RenderMembers(self, context, group, language, fallback_language, Tail(todo),
                           IF content.ok THEN Insert(result, Head(todo), content.val)
                           ELSE result)

\* the for loop of render_group over the members still to visit
RenderMembers(self, context, group, language, fallback_language, todo, result) ==
    IF todo = <<>> THEN Ok(result)
    ELSE LET content == render_template(self, context, group.map[Head(todo)],
                                        language, fallback_language)
         IN  IF ~content.ok THEN content
             ELSE RenderMembers(self, context, group, language, fallback_language,
                                Tail(todo), Insert(result, Head(todo), content.val))

\* render_group that looks the fallback language up before the language
render_group_FallbackFirst(self, context, group_key, language, fallback_language, member_order) ==
    IF ~ContainsKey(self.groups, group_key) THEN Err("GroupNotFound")
    ELSE IF fallback_language = None
    THEN RenderMembers(self, context, self.groups[group_key], language,
                       fallback_language, member_order, EmptyMap)
    ELSE RenderMembers(self, context, self.groups[group_key], fallback_language,
                       language, member_order, EmptyMap)

\* Terarium::render_group, the group's members visited in member_order
render_group(self, context, group_key, language, fallback_language, member_order) ==
    IF ~ContainsKey(self.groups, group_key) THEN Err("GroupNotFound")
    ELSE RenderMembers(self, context, self.groups[group_key], language,
                       fallback_language, member_order, EmptyMap)

\* the built instance
Instance == [tera |-> tera, template_map |-> template_map, groups |-> rgroups]

----------------------------------------------------------------------------
Init ==
    /\ phase = "Staging"
    /\ templates = EmptyMap
    /\ groups = EmptyMap
    /\ tera = EmptyMap
    /\ template_map = EmptyMap
    /\ rgroups = EmptyMap
    /\ calls = 0
    /\ last = [op |-> "default"]

\* add_template on a builder that build has already consumed
AddTemplate_AfterBuild(template_inputs) ==
    \E key \in TemplateKeys, template \in template_inputs :
        /\ calls < MaxAdds
        /\ templates' = add_template(templates, key, template)
        /\ calls' = calls + 1
        /\ last' = [op |-> "add_template", key |-> key, arg |-> template]
        /\ UNCHANGED <<phase, groups, tera, template_map, rgroups>>

\* builder = builder.add_template(key, template)
AddTemplate(template_inputs) ==
    \E key \in TemplateKeys, template \in template_inputs :
        /\ phase = "Staging"
        /\ calls < MaxAdds
        /\ templates' = add_template(templates, key, template)
        /\ calls' = calls + 1
        /\ last' = [op |-> "add_template", key |-> key, arg |-> template]
        /\ UNCHANGED <<phase, groups, tera, template_map, rgroups>>

\* builder = builder.add_group(key, group)
AddGroup(group_keys) ==
    \E key \in group_keys, group \in GroupInputs :
        /\ phase = "Staging"
        /\ calls < MaxAdds
        /\ groups' = add_group(groups, key, group)
        /\ calls' = calls + 1
        /\ last' = [op |-> "add_group", key |-> key, arg |-> group]
        /\ UNCHANGED <<phase, templates, tera, template_map, rgroups>>

\* builder.check_group_config_validity()
CheckGroupConfigValidity ==
    \E group_order \in Perms(DOMAIN groups) :
        /\ phase = "Staging"
        /\ last' = [op |-> "check_group_config_validity",
                    ret |-> check_group_config_validity(templates, groups, group_order)]
        /\ UNCHANGED <<phase, templates, groups, tera, template_map, rgroups, calls>>

\* builder.build(): the builder is moved into the call
Build ==
    \E group_order \in Perms(DOMAIN groups), template_order \in Perms(DOMAIN templates) :
        LET result == build(templates, groups, group_order, template_order)
        IN  /\ phase = "Staging"
            /\ last' = [op |-> "build",
                        ret |-> IF result.ok THEN Ok("Terarium") ELSE result]
            /\ IF result.ok
               THEN /\ phase' = "Built"
                    /\ tera' = result.val.tera
                    /\ template_map' = result.val.template_map
                    /\ rgroups' = result.val.groups
               ELSE /\ phase' = "Failed"
                    /\ UNCHANGED <<tera, template_map, rgroups>>
            /\ UNCHANGED <<templates, groups, calls>>

\* render_template that hands out the result of the call before it when the
\* key, the language and the fallback are the same, whatever the context is
RenderTemplate_Cached ==
    \E context \in Contexts, template_key \in TemplateKeys,
       language \in Locales, fallback_language \in {None} \cup Locales :
        /\ phase = "Built"
        /\ last' = [op |-> "render_template", context |-> context, key |-> template_key,
                    language |-> language, fallback |-> fallback_language,
                    ret |-> IF /\ last.op = "render_template"
                               /\ last.key = template_key
                               /\ last.language = language
                               /\ last.fallback = fallback_language
                            THEN last.ret
                            ELSE render_template(Instance, context, template_key,
                                                 language, fallback_language)]
        /\ UNCHANGED <<phase, templates, groups, tera, template_map, rgroups, calls>>

\* instance.render_template(&context, template_key, language, fallback_language)
RenderTemplate ==
    \E context \in Contexts, template_key \in TemplateKeys,
       language \in Locales, fallback_language \in {None} \cup Locales :
        /\ phase = "Built"
        /\ last' = [op |-> "render_template", context |-> context, key |-> template_key,
                    language |-> language, fallback |-> fallback_language,
                    ret |-> render_template(Instance, context, template_key,
                                            language, fallback_language)]
        /\ UNCHANGED <<phase, templates, groups, tera, template_map, rgroups, calls>>

\* instance.render_group(&context, group_key, language, fallback_language)
RenderGroup ==
    \E context \in Contexts, group_key \in GroupKeys,
       language \in Locales, fallback_language \in {None} \cup Locales :
        /\ phase = "Built"
        /\ \E member_order \in (IF ContainsKey(rgroups, group_key)
                                THEN GroupIter(rgroups[group_key]) ELSE {<<>>}) :
             last' = [op |-> "render_group", context |-> context, key |-> group_key,
                      language |-> language, fallback |-> fallback_language,
                      ret |-> render_group(Instance, context, group_key,
                                           language, fallback_language, member_order)]
        /\ UNCHANGED <<phase, templates, groups, tera, template_map, rgroups, calls>>

\* the builder alone: staging, validation and build
NextBuilder ==
    \/ AddTemplate(Templates)
    \/ AddGroup(GroupKeys)
    \/ CheckGroupConfigValidity
    \/ Build

SpecBuilder == Init /\ [][NextBuilder]_vars

\* the whole lifecycle, over the templates that compile and one group
Next ==
    \/ AddTemplate(RenderTemplates)
    \/ AddGroup({"g1"})
    \/ CheckGroupConfigValidity
    \/ Build
    \/ RenderTemplate
    \/ RenderGroup

Spec == Init /\ [][Next]_vars
----------------------------------------------------------------------------
(* Properties of render_template                                           *)

\* the locales tagged by the variants of a template
TaggedLocales(template) == UNION {template[i].languages : i \in 1..Len(template)}

\* what rendering a body on its own against a context gives
Rendering(content, context) ==
    LET r == TeraRender([h \in {"h"} |-> content], "h", context)
    IN  IF r.ok THEN r ELSE Err("RenderingFailed")

\* the body of the last variant of a template that tags a locale
ContentFor(template, locale) ==
    LET tagging == {i \in 1..Len(template) : locale \in template[i].languages}
    IN  template[CHOOSE i \in tagging : \A j \in tagging : j <= i].content

\* a render_template call has returned from a template of the builder whose
\* variants tag one locale only, asked for another locale
SingleLocaleCall ==
    /\ phase = "Built"
    /\ last.op = "render_template"
    /\ ContainsKey(templates, last.key)
    /\ Cardinality(TaggedLocales(templates[last.key])) = 1
    /\ last.language \notin TaggedLocales(templates[last.key])

\* C1: after a successful build, render_template with a template key that was
\* not in the builder's template set returns TemplateNotFound, whatever the
\* context, the locale and the fallback locale are.
C1_TemplateNotFound ==
    (phase = "Built" /\ last.op = "render_template" /\ ~ContainsKey(templates, last.key))
        => last.ret = Err("TemplateNotFound")

C1_Witness ==
    /\ phase = "Built"
    /\ last.op = "render_template"
    /\ ~ContainsKey(templates, last.key)
    /\ \E k \in DOMAIN templates : last.fallback \in TaggedLocales(templates[k])
    /\ last.ret = Err("TemplateNotFound")

\* C2 as stated: for a template whose variants tag only locale L and a locale
\* M # L, render_template with M and no fallback returns LanguageNotFound, with
\* M and fallback L it succeeds with the rendering of the content for L, and
\* with M and an untagged fallback it returns LanguageNotFound.
C2_AsStated ==
    SingleLocaleCall =>
        LET template == templates[last.key]
            expected == Rendering(ContentFor(template, last.fallback), last.context)
        IN  IF last.fallback \in TaggedLocales(template)
            THEN last.ret.ok /\ expected.ok /\ last.ret.val = expected.val
            ELSE last.ret = Err("LanguageNotFound")

\* C2, amended: with M and no fallback, or an untagged fallback, the call
\* returns LanguageNotFound; with M and fallback L it returns what
\* render_template returns for locale L itself, never LanguageNotFound or
\* TemplateNotFound: the rendering of the body held under the handle indexed
\* for (T, L), which is RenderingFailed when the renderer fails on the context.
C2_FallbackResolves ==
    SingleLocaleCall =>
        IF last.fallback \in TaggedLocales(templates[last.key])
        THEN /\ last.ret = render_template(Instance, last.context, last.key,
                                           last.fallback, None)
             /\ ContainsKey(template_map, last.key)
             /\ ContainsKey(template_map[last.key], last.fallback)
             /\ ContainsKey(tera, template_map[last.key][last.fallback])
             /\ last.ret = Rendering(tera[template_map[last.key][last.fallback]],
                                     last.context)
        ELSE last.ret = Err("LanguageNotFound")

C2_Witness ==
    /\ SingleLocaleCall
    /\ last.fallback \in TaggedLocales(templates[last.key])
    /\ last.ret = Ok("b john")
----------------------------------------------------------------------------
(* Properties of the builder                                               *)

\* the elements of a sequence
Range(seq) == {seq[i] : i \in 1..Len(seq)}

\* the (group key, member key, template key) triples of the builder whose
\* template key is not a key of the builder's templates
Violations ==
    UNION { { <<g, m, groups[g].map[m]>> :
                m \in {x \in DOMAIN groups[g].map :
                          ~ContainsKey(templates, groups[g].map[x])} }
            : g \in DOMAIN groups }

\* C3: in every builder state reached by add_template and add_group calls,
\* check_group_config_validity returns, without duplicates and in some order,
\* exactly the triples (group key, member key, template key) of the members
\* whose template key is absent from the builder's templates: none when there
\* is no such member, and all of them, over all groups, otherwise.
C3_AllViolations ==
    last.op = "check_group_config_validity" =>
        /\ Range(last.ret) = Violations
        /\ Len(last.ret) = Cardinality(Violations)
        /\ (last.ret = <<>>) <=> (Violations = {})

C3_Witness ==
    /\ last.op = "check_group_config_validity"
    /\ templates # EmptyMap
    /\ \E i, j \in 1..Len(last.ret) : last.ret[i][1] # last.ret[j][1]
    /\ \E g \in DOMAIN groups : \E m \in DOMAIN groups[g].map :
            ContainsKey(templates, groups[g].map[m])

\* C4: build fails with GroupIntegrityProblem exactly when
\* check_group_config_validity is non-empty on the builder it consumes; the
\* error then carries the list check_group_config_validity returns, the
\* complete one, and no instance is produced.
C4_GroupIntegrityProblem ==
    last.op = "build" =>
        /\ (~last.ret.ok /\ last.ret.err = "GroupIntegrityProblem") <=> (Violations # {})
        /\ Violations # {} =>
              /\ \E group_order \in Perms(DOMAIN groups) :
                    last.ret.violations =
                        check_group_config_validity(templates, groups, group_order)
              /\ Range(last.ret.violations) = Violations
              /\ phase = "Failed"
              /\ tera = EmptyMap /\ template_map = EmptyMap /\ rgroups = EmptyMap

C4_Witness ==
    /\ last.op = "build"
    /\ phase = "Failed"
    /\ last.ret.err = "GroupIntegrityProblem"
    /\ Len(last.ret.violations) >= 2
    /\ \E k \in DOMAIN templates : \E i \in 1..Len(templates[k]) :
            templates[k][i].content = BodyBad

\* C8: add_template and add_group are last-write-wins per key: a call stores
\* the value passed under the key, replacing what was there, leaves every
\* other entry as it was, and the number of entries is the number of distinct
\* keys added.
C8_LastWriteWins ==
    [][ /\ last'.op = "add_template" =>
              /\ ContainsKey(templates', last'.key)
              /\ templates'[last'.key] = last'.arg
              /\ DOMAIN templates' = DOMAIN templates \cup {last'.key}
              /\ \A k \in DOMAIN templates \ {last'.key} : templates'[k] = templates[k]
              /\ groups' = groups
        /\ last'.op = "add_group" =>
              /\ ContainsKey(groups', last'.key)
              /\ groups'[last'.key] = last'.arg
              /\ DOMAIN groups' = DOMAIN groups \cup {last'.key}
              /\ \A k \in DOMAIN groups \ {last'.key} : groups'[k] = groups[k]
              /\ templates' = templates
      ]_vars

\* two add_template calls with one key and one with another: the first was replaced
C8_Witness ==
    /\ last.op = "add_template"
    /\ calls = 3
    /\ groups = EmptyMap
    /\ Cardinality(DOMAIN templates) = 2
    /\ \E k \in DOMAIN templates : k # last.key /\ templates[k] # <<>>

----------------------------------------------------------------------------
(* Properties of render_group and of the lifecycle                         *)

\* what render_template gives for the member of the group asked for by the last call
MemberResult(m) ==
    render_template(Instance, last.context, rgroups[last.key].map[m],
                    last.language, last.fallback)

\* a render_group call has returned for a group of the instance
GroupCall ==
    /\ phase = "Built"
    /\ last.op = "render_group"
    /\ ContainsKey(rgroups, last.key)

\* C5: when render_group succeeds, the mapping it returns has the members of
\* the group as its keys and holds under each member what render_template
\* returns, for the same context, locale and fallback, on the member's template.
C5_GroupMapping ==
    (GroupCall /\ last.ret.ok) =>
        /\ DOMAIN last.ret.val = DOMAIN rgroups[last.key].map
        /\ \A m \in DOMAIN rgroups[last.key].map : MemberResult(m) = Ok(last.ret.val[m])

\* one member rendered through the locale asked for, another through the fallback
C5_Witness ==
    /\ GroupCall /\ last.ret.ok
    /\ \E m, n \in DOMAIN rgroups[last.key].map :
          /\ ContainsKey(template_map[rgroups[last.key].map[m]], last.language)
          /\ ~ContainsKey(template_map[rgroups[last.key].map[n]], last.language)
          /\ last.ret.val[m] # last.ret.val[n]

\* C6: render_group is fail-fast: when render_template fails for a member of the
\* group, render_group returns the error of a failing member and no mapping.
C6_FailFast ==
    (GroupCall /\ \E m \in DOMAIN rgroups[last.key].map : ~MemberResult(m).ok) =>
        /\ ~last.ret.ok
        /\ \E m \in DOMAIN rgroups[last.key].map :
              ~MemberResult(m).ok /\ last.ret = MemberResult(m)

\* one member renders and the other does not
C6_Witness ==
    /\ GroupCall
    /\ \E m, n \in DOMAIN rgroups[last.key].map : MemberResult(m).ok /\ ~MemberResult(n).ok
    /\ ~last.ret.ok

\* C7: after a successful build the instance holds the builder's groups as they
\* were, and render_group returns GroupNotFound exactly for the group keys that
\* were not in the builder's group map.
C7_GroupNotFound ==
    phase = "Built" =>
        /\ rgroups = groups
        /\ last.op = "render_group" =>
              ((last.ret = Err("GroupNotFound")) <=> ~ContainsKey(groups, last.key))

C7_Witness ==
    /\ phase = "Built"
    /\ last.op = "render_group"
    /\ ContainsKey(groups, last.key)
    /\ Cardinality(DOMAIN groups[last.key].map) = 2
    /\ last.ret.ok

RenderOps == {"render_template", "render_group"}

C10_OneShot ==
    [][ /\ (phase = "Staging" /\ last'.op \in {"add_template", "add_group",
                                                "check_group_config_validity"})
              => phase' = "Staging"
        /\ (phase = "Staging" /\ phase' # "Staging")
              => (last'.op = "build" /\ phase' \in {"Built", "Failed"})
        /\ phase # "Staging"
              => /\ phase' = phase
                 /\ last'.op \in RenderOps
                 /\ phase = "Built"
                 /\ <<templates, groups, calls>>' = <<templates, groups, calls>>
      ]_vars

C10_Witness ==
    /\ phase = "Failed"
    /\ last.op = "build"
    /\ calls < MaxAdds
----------------------------------------------------------------------------
(* Properties of the handle names and of the index                         *)

\* the number of unnamed variants among the first p of a list of
\* <<template key, content>> pairs
UnnamedUpTo(work, p) == Cardinality({q \in 1..p : work[q][2].name = None})

\* the variants of work after position p that belong to the same template and
\* tag the locale
TaggedLater(work, p, locale) ==
    {q \in (p + 1)..Len(work) : work[q][1] = work[p][1] /\ locale \in work[q][2].languages}

\* the instance is what registering the variants of work under the handle
\* names Name(p) gives: these are the names of the handle store, and the index
\* maps a locale of a template to the name of its last variant tagging it
RegisteredAs(work, Name(_)) ==
    /\ DOMAIN tera = {Name(p) : p \in 1..Len(work)}
    /\ \A p \in 1..Len(work) : \A l \in work[p][2].languages :
          TaggedLater(work, p, l) = {} =>
              /\ ContainsKey(template_map, work[p][1])
              /\ ContainsKey(template_map[work[p][1]], l)
              /\ template_map[work[p][1]][l] = Name(p)

\* C11 as stated: the counter is consumed by the unnamed variants only, so
\* the unnamed variants of a build are named template#1, template#2, ... without
\* gaps, and a named variant is registered under its own name.
C11_AsStated ==
    phase = "Built" =>
        \E template_order \in Perms(DOMAIN templates) :
            LET work == ContentsInOrder(templates, template_order)
                Name(p) == IF work[p][2].name = None
                           THEN TemplateName(UnnamedUpTo(work, p))
                           ELSE work[p][2].name
            IN  RegisteredAs(work, Name)

\* C11, amended: every variant advances the counter, named or not: a named
\* variant is registered under its own name, and an unnamed variant that is the
\* p-th variant compiled by the build is registered as template#p, so the
\* numbers of the unnamed variants increase but skip the named variants.
C11_CounterPerVariant ==
    phase = "Built" =>
        \E template_order \in Perms(DOMAIN templates) :
            LET work == ContentsInOrder(templates, template_order)
                Name(p) == IF work[p][2].name = None THEN TemplateName(p)
                           ELSE work[p][2].name
            IN  RegisteredAs(work, Name)

\* a named variant compiled before an unnamed one
C11_Witness ==
    /\ phase = "Built"
    /\ \E k \in DOMAIN templates :
          /\ Len(templates[k]) = 2
          /\ templates[k][1].name # None
          /\ templates[k][2].name = None
          /\ template_map[k]["en"] = "template#2"
RECURSIVE SumLen(_, _)
\* the number of content variants of the templates under the keys
SumLen(map, keys) ==
    IF keys = {} THEN 0
    ELSE LET k == CHOOSE x \in keys : TRUE
         IN  Len(map[k]) + SumLen(map, keys \ {k})

\* C12: within one template the last variant tagging a locale wins: after a
\* successful build the index has an entry for every locale L tagged by a
\* variant of a template T, and render_template(ctx, T, L, none) gives the
\* rendering of the body of the last variant of T that tags L.
C12_LastVariantWins ==
    phase = "Built" =>
        /\ \A k \in DOMAIN templates : \A l \in TaggedLocales(templates[k]) :
              ContainsKey(template_map, k) /\ ContainsKey(template_map[k], l)
        /\ ( /\ last.op = "render_template"
             /\ last.fallback = None
             /\ ContainsKey(templates, last.key)
             /\ last.language \in TaggedLocales(templates[last.key]) )
           => last.ret = Rendering(ContentFor(templates[last.key], last.language),
                                   last.context)

\* C16: after a successful build every template key of the builder is in the
\* index, so render_template on such a key does not return TemplateNotFound
\* (LanguageNotFound when no variant serves the locale or the fallback), and
\* render_group on a group of the instance does not fail with TemplateNotFound.
C16_EveryTemplateIndexed ==
    phase = "Built" =>
        /\ \A k \in DOMAIN templates : ContainsKey(template_map, k)
        /\ (last.op = "render_template" /\ ContainsKey(templates, last.key)) =>
              /\ last.ret # Err("TemplateNotFound")
              /\ ({last.language, last.fallback} \cap TaggedLocales(templates[last.key]) = {})
                    => last.ret = Err("LanguageNotFound")
        /\ (last.op = "render_group" /\ ContainsKey(rgroups, last.key)) =>
              last.ret # Err("TemplateNotFound")

\* C17: in a successful build the variants are registered under pairwise
\* distinct handle names, so the handle store holds one body per variant and
\* every index entry leads to the body of the variant that recorded it.
C17_DistinctHandles ==
    phase = "Built" =>
        /\ Cardinality(DOMAIN tera) = SumLen(templates, DOMAIN templates)
        /\ \A k \in DOMAIN template_map : \A l \in DOMAIN template_map[k] :
              tera[template_map[k][l]] = ContentFor(templates[k], l)

\* the variants of the builder that the renderer cannot compile
BadVariants ==
    UNION { { <<k, i>> : i \in {j \in 1..Len(templates[k]) :
                  ~TeraAddRawTemplate(EmptyMap, "x", templates[k][j].content).ok} }
            : k \in DOMAIN templates }

\* the position of the first variant of work that does not compile
FirstBad(work) ==
    CHOOSE p \in 1..Len(work) :
        /\ ~TeraAddRawTemplate(EmptyMap, "x", work[p][2].content).ok
        /\ \A q \in 1..(p - 1) : TeraAddRawTemplate(EmptyMap, "x", work[q][2].content).ok

\* C13: build validates before it compiles. With no group violation and a
\* variant that does not compile, build returns TemplateBuildingError, the
\* compilation stops at the first failing variant of the iteration and no
\* instance is produced; with a group violation and a variant that does not
\* compile, build returns GroupIntegrityProblem and nothing is compiled.
C13_ValidateBeforeCompile ==
    (last.op = "build" /\ BadVariants # {}) =>
        /\ Violations = {} =>
              /\ last.ret = Err("TemplateBuildingError")
              /\ \A template_order \in Perms(DOMAIN templates) :
                    LET work == ContentsInOrder(templates, template_order)
                        st == BuildContents([tera |-> EmptyMap, template_map |-> EmptyMap,
                                             tera_template_id |-> 1, failed |-> FALSE], work)
                    IN  /\ st.failed
                        /\ st.tera_template_id = FirstBad(work) + 1
                        /\ Cardinality(DOMAIN st.tera) < FirstBad(work)
        /\ Violations # {} =>
              /\ ~last.ret.ok
              /\ last.ret.err = "GroupIntegrityProblem"
        /\ phase = "Failed"
        /\ tera = EmptyMap /\ template_map = EmptyMap /\ rgroups = EmptyMap

C13_Witness ==
    /\ last.op = "build"
    /\ last.ret = Err("TemplateBuildingError")
    /\ groups # EmptyMap
    /\ \E k \in DOMAIN templates :
            /\ Len(templates[k]) = 2
            /\ templates[k][1].content # BodyBad
            /\ templates[k][2].content = BodyBad

\* a render_template call has returned whose template has, in the index of
\* the instance, an entry for the requested locale
RequestedLocaleCall ==
    /\ phase = "Built"
    /\ last.op = "render_template"
    /\ ContainsKey(template_map, last.key)
    /\ ContainsKey(template_map[last.key], last.language)

\* C14: the requested locale takes precedence over the fallback. When the
\* template resolved in the index has an entry for the requested locale,
\* render_template renders the handle of that entry, and the result is the
\* same for every fallback locale: none, one the template has, one it has
\* not. The fallback decides the result only when the requested locale is
\* absent from the template.
C14_RequestedLocaleFirst ==
    /\ RequestedLocaleCall =>
          /\ last.ret = Rendering(tera[template_map[last.key][last.language]], last.context)
          /\ \A fallback_language \in {None} \cup Locales :
                render_template(Instance, last.context, last.key, last.language,
                                fallback_language) = last.ret
    /\ (/\ phase = "Built"
        /\ last.op = "render_template"
        /\ ContainsKey(template_map, last.key)
        /\ ~ContainsKey(template_map[last.key], last.language)) =>
          last.ret = IF last.fallback # None
                        /\ ContainsKey(template_map[last.key], last.fallback)
                     THEN Rendering(tera[template_map[last.key][last.fallback]], last.context)
                     ELSE Err("LanguageNotFound")

C14_Witness ==
    /\ RequestedLocaleCall
    /\ last.fallback # None
    /\ last.fallback # last.language
    /\ ContainsKey(template_map[last.key], last.fallback)
    /\ last.ret.ok
    /\ Rendering(tera[template_map[last.key][last.fallback]], last.context).ok
    /\ Rendering(tera[template_map[last.key][last.fallback]], last.context) # last.ret

\* C15: render_template and render_group leave the instance as it is, whether
\* they succeed or fail: every step taken from a built instance is a render
\* step, and it leaves the handle store, the index and the groups as they
\* were, so that after any sequence of render calls they are what they were
\* right after build; and the result of the step is what the call computes
\* from that instance and its own arguments, the context included, not the
\* result of a call before it.
C15_RenderReadOnly ==
    /\ [][ (phase = "Built" \/ last'.op \in RenderOps) =>
              /\ phase = "Built" /\ phase' = "Built"
              /\ last'.op \in RenderOps
              /\ tera' = tera /\ template_map' = template_map /\ rgroups' = rgroups ]_vars
    /\ []( /\ last.op = "render_template" =>
                last.ret = render_template(Instance, last.context, last.key,
                                           last.language, last.fallback)
           /\ last.op = "render_group" =>
                last.ret = render_group(Instance, last.context, last.key,
                                        last.language, last.fallback,
                                        IF ContainsKey(rgroups, last.key)
                                        THEN rgroups[last.key].order ELSE <<>>) )

\* a call has returned whose result would be another one with the other context
C15_Witness ==
    /\ phase = "Built"
    /\ last.op = "render_template"
    /\ last.ret = Err("RenderingFailed")
    /\ tera # EmptyMap /\ rgroups # EmptyMap
    /\ \E context \in Contexts :
          render_template(Instance, context, last.key, last.language, last.fallback).ok

----------------------------------------------------------------------------
(* TerraristBuilder                                                        *)

\* the number of calls that change a TerraristBuilder in one behaviour
MaxCalls == 5

\* Option<T>
Some(value) == [some |-> TRUE, val |-> value]
Nothing     == [some |-> FALSE]

\* HashMap::get_mut
GetMut(map, key) == IF ContainsKey(map, key) THEN Some(map[key]) ELSE Nothing

\* HashMap::remove: the map without the key
Remove(map, key) == [k \in DOMAIN map \ {key} |-> map[k]]

\* the (content, locales) pairs passed to Template::add_content
Variants == {<<BodyA, <<"en">>>>, <<BodyB, <<"cs", "en">>>>, <<BodyBad, <<"en">>>>}

\* Template::add_content on a template of the builder, reached through the
\* reference add_template and get_template return
add_content(self_templates, key, content, locales) ==
    [self_templates EXCEPT ![key] = Append(@, <<content, locales>>)]

\* add_template that leaves a template stored under the key as it is
terrarist_add_template_KeepExisting(self_templates, key) ==
    IF ContainsKey(self_templates, key) THEN self_templates
    ELSE Insert(self_templates, key, <<>>)

\* TerraristBuilder::add_template: Template::default() inserted under key
terrarist_add_template(self_templates, key) == Insert(self_templates, key, <<>>)

\* TerraristBuilder::get_template
get_template(self_templates, key) == GetMut(self_templates, key)

\* TerraristBuilder::remove_template: the templates left and the value returned
remove_template(self_templates, key) ==
    [templates |-> Remove(self_templates, key), ret |-> GetMut(self_templates, key)]

\* TerraristBuilder::add_group: HashMap::new() inserted under key
terrarist_add_group(self_groups, key) == Insert(self_groups, key, Group(EmptyMap, <<>>))

\* TerraristBuilder::get_group
get_group(self_groups, key) == GetMut(self_groups, key)

\* TerraristBuilder::remove_group: the groups left and the value returned
remove_group(self_groups, key) ==
    [groups |-> Remove(self_groups, key), ret |-> GetMut(self_groups, key)]

\* HashMap::insert on a group reached through the reference add_group and
\* get_group return: the groups it may leave, one for every iteration order
\* the member map may have afterwards (the order is kept when the member key
\* was there already)
group_insert(self_groups, key, member, template_key) ==
    LET group == self_groups[key]
        map == Insert(group.map, member, template_key)
    IN  { [self_groups EXCEPT ![key] = Group(map, order)] :
            order \in IF ContainsKey(group.map, member) THEN {group.order}
                      ELSE Perms(DOMAIN map) }

\* TerraristBuilder::check_group_config_validity, self.groups iterated in group_order
terrarist_check_group_config_validity(self_templates, self_groups, group_order) ==
    Flatten([i \in 1..Len(group_order) |->
                MissingMembers(self_templates, group_order[i], self_groups[group_order[i]])])

\* the (content, locales) pairs of the templates, in template_order and, in a
\* template, in the order of collect_contents()
TerraristContentsInOrder(self_templates, template_order) ==
    Flatten([i \in 1..Len(template_order) |-> self_templates[template_order[i]]])

RECURSIVE TerraristBuildContents(_, _)
\* the two nested try_for_each of TerraristBuilder::build over the pairs still
\* to compile
TerraristBuildContents(st, work) ==
    IF work = <<>> \/ st.failed THEN st
    ELSE LET template_name == TemplateName(st.tera_template_id)
             added == TeraAddRawTemplate(st.tera, template_name, Head(work)[1])
         IN  TerraristBuildContents(
                 IF added.ok
                 THEN [tera |-> added.val, tera_template_id |-> st.tera_template_id + 1,
                       failed |-> FALSE]
                 ELSE [st EXCEPT !.tera_template_id = @ + 1, !.failed = TRUE],
                 Tail(work))

\* build that validates the groups first, as TerariumBuilder::build does
terrarist_build_Validating(self_templates, self_groups, template_order) ==
    LET st == TerraristBuildContents([tera |-> EmptyMap, tera_template_id |-> 1,
                                      failed |-> FALSE],
                                     TerraristContentsInOrder(self_templates, template_order))
    IN  IF \E group_order \in Perms(DOMAIN self_groups) :
              terrarist_check_group_config_validity(self_templates, self_groups,
                                                    group_order) # <<>>
        THEN Err("GroupIntegrityProblem")
        ELSE IF st.failed THEN Err("TemplateBuildingError")
        ELSE Ok([tera |-> st.tera])

\* TerraristBuilder::build, self.templates iterated in template_order
terrarist_build(self_templates, self_groups, template_order) ==
    LET st == TerraristBuildContents([tera |-> EmptyMap, tera_template_id |-> 1,
                                      failed |-> FALSE],
                                     TerraristContentsInOrder(self_templates, template_order))
    IN  IF st.failed THEN Err("TemplateBuildingError")
        ELSE Ok([tera |-> st.tera])

\* let template = builder.add_template(key)
TerraristAddTemplate ==
    \E key \in TemplateKeys :
        /\ phase = "Staging"
        /\ calls < MaxCalls
        /\ templates' = terrarist_add_template(templates, key)
        /\ calls' = calls + 1
        /\ last' = [op |-> "add_template", key |-> key,
                    replaced |-> GetMut(templates, key)]
        /\ UNCHANGED <<phase, groups, tera, template_map, rgroups>>

\* template.add_content(content, locales), template being the reference to
\* the template stored under key
TerraristAddContent ==
    \E key \in DOMAIN templates, variant \in Variants :
        /\ phase = "Staging"
        /\ calls < MaxCalls
        /\ templates' = add_content(templates, key, variant[1], variant[2])
        /\ calls' = calls + 1
        /\ last' = [op |-> "add_content", key |-> key]
        /\ UNCHANGED <<phase, groups, tera, template_map, rgroups>>

\* builder.get_template(&key)
TerraristGetTemplate ==
    \E key \in TemplateKeys :
        /\ phase = "Staging"
        /\ last' = [op |-> "get_template", key |-> key,
                    ret |-> get_template(templates, key)]
        /\ UNCHANGED <<phase, templates, groups, tera, template_map, rgroups, calls>>

\* builder.remove_template(&key)
TerraristRemoveTemplate ==
    \E key \in TemplateKeys :
        /\ phase = "Staging"
        /\ calls < MaxCalls
        /\ templates' = remove_template(templates, key).templates
        /\ calls' = calls + 1
        /\ last' = [op |-> "remove_template", key |-> key,
                    ret |-> remove_template(templates, key).ret]
        /\ UNCHANGED <<phase, groups, tera, template_map, rgroups>>

\* let group = builder.add_group(key)
TerraristAddGroup ==
    \E key \in GroupKeys :
        /\ phase = "Staging"
        /\ calls < MaxCalls
        /\ groups' = terrarist_add_group(groups, key)
        /\ calls' = calls + 1
        /\ last' = [op |-> "add_group", key |-> key, replaced |-> GetMut(groups, key)]
        /\ UNCHANGED <<phase, templates, tera, template_map, rgroups>>

\* group.insert(member, template_key), group being the reference to the
\* group stored under key
TerraristGroupInsert ==
    \E key \in DOMAIN groups, member \in MemberKeys, template_key \in TemplateKeys :
        /\ phase = "Staging"
        /\ calls < MaxCalls
        /\ groups' \in group_insert(groups, key, member, template_key)
        /\ calls' = calls + 1
        /\ last' = [op |-> "group_insert", key |-> key]
        /\ UNCHANGED <<phase, templates, tera, template_map, rgroups>>

\* builder.get_group(&key)
TerraristGetGroup ==
    \E key \in GroupKeys :
        /\ phase = "Staging"
        /\ last' = [op |-> "get_group", key |-> key, ret |-> get_group(groups, key)]
        /\ UNCHANGED <<phase, templates, groups, tera, template_map, rgroups, calls>>

\* builder.remove_group(&key)
TerraristRemoveGroup ==
    \E key \in GroupKeys :
        /\ phase = "Staging"
        /\ calls < MaxCalls
        /\ groups' = remove_group(groups, key).groups
        /\ calls' = calls + 1
        /\ last' = [op |-> "remove_group", key |-> key,
                    ret |-> remove_group(groups, key).ret]
        /\ UNCHANGED <<phase, templates, tera, template_map, rgroups>>

\* builder.check_group_config_validity()
TerraristCheckGroupConfigValidity ==
    \E group_order \in Perms(DOMAIN groups) :
        /\ phase = "Staging"
        /\ last' = [op |-> "check_group_config_validity",
                    ret |-> terrarist_check_group_config_validity(templates, groups,
                                                                  group_order)]
        /\ UNCHANGED <<phase, templates, groups, tera, template_map, rgroups, calls>>

\* builder.build(): the builder is moved into the call
TerraristBuild ==
    \E template_order \in Perms(DOMAIN templates) :
        LET result == terrarist_build(templates, groups, template_order)
        IN  /\ phase = "Staging"
            /\ last' = [op |-> "build",
                        ret |-> IF result.ok THEN Ok("Terrarist") ELSE result]
            /\ IF result.ok
               THEN /\ phase' = "Built"
                    /\ tera' = result.val.tera
               ELSE /\ phase' = "Failed"
                    /\ UNCHANGED tera
            /\ UNCHANGED <<templates, groups, template_map, rgroups, calls>>

\* a TerraristBuilder from TerraristBuilder::default() to build
NextTerrarist ==
    \/ TerraristAddTemplate
    \/ TerraristAddContent
    \/ TerraristGetTemplate
    \/ TerraristRemoveTemplate
    \/ TerraristAddGroup
    \/ TerraristGroupInsert
    \/ TerraristGetGroup
    \/ TerraristRemoveGroup
    \/ TerraristCheckGroupConfigValidity
    \/ TerraristBuild

SpecTerrarist == Init /\ [][NextTerrarist]_vars

----------------------------------------------------------------------------
(* Properties of TerraristBuilder                                          *)

\* the (template key, position) pairs of the variants of the TerraristBuilder
\* that the renderer cannot compile
UncompilableVariants ==
    UNION { { <<k, i>> : i \in {j \in 1..Len(templates[k]) :
                  ~TeraAddRawTemplate(EmptyMap, "x", templates[k][j][1]).ok} }
            : k \in DOMAIN templates }

\* C18: TerraristBuilder.build does not validate the groups. In every builder
\* state, those where check_group_config_validity returns violations included,
\* build succeeds exactly when every content variant compiles, and when it
\* fails the error is TemplateBuildingError.
C18_NoGroupValidation ==
    last.op = "build" =>
        /\ last.ret.ok <=> (UncompilableVariants = {})
        /\ ~last.ret.ok => (last.ret = Err("TemplateBuildingError") /\ phase = "Failed")
        /\ last.ret.ok => (last.ret = Ok("Terrarist") /\ phase = "Built")
        /\ (UncompilableVariants = {} /\ Violations # {}) =>
              /\ \A group_order \in Perms(DOMAIN groups) :
                    terrarist_check_group_config_validity(templates, groups,
                                                          group_order) # <<>>
              /\ last.ret = Ok("Terrarist")

\* build has succeeded on a builder with compiled variants whose groups have
\* a member without template
C18_Witness ==
    /\ last.op = "build"
    /\ last.ret = Ok("Terrarist")
    /\ tera # EmptyMap
    /\ Violations # {}
    /\ \A group_order \in Perms(DOMAIN groups) :
          terrarist_check_group_config_validity(templates, groups, group_order) # <<>>

\* what one call of an add, remove or get operation on one of the two maps of
\* the builder does: before and after are the map before and after the step,
\* empty the value add stores, and op the operation of the step
EntryStep(before, after, empty, add_op, remove_op, get_op) ==
    /\ last'.op = add_op =>
          /\ GetMut(after, last'.key) = Some(empty)
          /\ last'.replaced = GetMut(before, last'.key)
    /\ last'.op = remove_op =>
          /\ GetMut(after, last'.key) = Nothing
          /\ last'.ret = GetMut(before, last'.key)
          /\ ~ContainsKey(before, last'.key) =>
                (last'.ret = Nothing /\ after = before)
    /\ last'.op = get_op =>
          /\ last'.ret.some <=> ContainsKey(before, last'.key)
          /\ last'.ret.some => last'.ret.val = before[last'.key]
          /\ after = before
    /\ last'.op \in {add_op, remove_op} =>
          \A k \in (DOMAIN before \cup DOMAIN after) \ {last'.key} :
              GetMut(after, k) = GetMut(before, k)
    /\ last'.op \notin {add_op, remove_op} => DOMAIN after = DOMAIN before

\* C19: the key sets of a TerraristBuilder follow the add and remove calls.
\* add_template(k) (add_group(k)) leaves k present with a new empty template
\* (group), whatever was stored under k before; remove_template(k)
\* (remove_group(k)) leaves k absent and returns what was stored, nothing and
\* no change when k was absent; no other call adds or removes a key or touches
\* another key's entry; get_template(k) (get_group(k)) returns the entry
\* exactly when k is present. Hence, after any sequence of calls, get returns
\* an entry if and only if the most recent add or remove for k was an add.
C19_AddRemoveGet ==
    [][ /\ EntryStep(templates, templates', <<>>,
                     "add_template", "remove_template", "get_template")
        /\ EntryStep(groups, groups', Group(EmptyMap, <<>>),
                     "add_group", "remove_group", "get_group")
        /\ last'.op \in {"add_template", "remove_template", "get_template",
                         "add_content"} => groups' = groups
        /\ last'.op \in {"add_group", "remove_group", "get_group",
                         "group_insert"} => templates' = templates ]_vars

\* add_template has replaced a template that had content variants, with a
\* group that has members in the builder
C19_Witness ==
    /\ last.op = "add_template"
    /\ last.replaced.some
    /\ last.replaced.val # <<>>
    /\ templates[last.key] = <<>>
    /\ \E g \in DOMAIN groups : groups[g].map # EmptyMap

====
